---- MODULE Spec2Model ----
(***************************************************************************)
(* State-machine model of SortService                                      *)
(* (src/src/app/modules/angular-slickgrid/services/sort.service.ts).       *)
(*                                                                         *)
(* The service is attached to a grid either in backend mode                *)
(* (attachBackendOnSort) or in local mode (attachLocalOnSort).  The grid,  *)
(* the data view, the backend service and the host's hooks are external    *)
(* collaborators.  In backend mode every call the service makes on them is *)
(* appended to `log`, in program order, tagged with the handler invocation *)
(* making it; in local mode `calls` holds the calls made by the handler of *)
(* the latest event.  The host attaches the service once, in one mode      *)
(* (the attach actions are enabled while nothing is subscribed).           *)
(***************************************************************************)
EXTENDS Integers, Sequences, FiniteSets

(***************************************************************************)
(* Bounds of the model.                                                    *)
(***************************************************************************)
\* backend sort gestures notified by the grid in one behaviour
MaxGestures == 2
\* rows the data view holds at most
MaxRows == 2
\* column definitions of a grid at most
MaxColumns == 3
\* sorter presets configured at most
MaxPresets == 2
\* pairs of a multi-column sort gesture at most
MaxSortCols == 2
\* calls of dispose() in one behaviour
MaxDisposals == 2

(***************************************************************************)
(* Values.                                                                 *)
(***************************************************************************)
\* A column id is a string or a number (Column.id: number | string); the
\* first component is the JavaScript type, so that === tells "7" from 7.
StrId(v) == <<"str", v>>
NumId(v) == <<"num", v>>

\* SortDirection.ASC / SortDirection.DESC
ASC == "ASC"
DESC == "DESC"

Sorter(id, dir) == [columnId |-> id, direction |-> dir]

\* String.prototype.toUpperCase on the direction strings (lines 128, 135)
toUpperCase(d) == CASE d = "asc" -> "ASC" [] d = "desc" -> "DESC" [] OTHER -> d

\* id + '' (line 134): the id as a string
IdToString(id) == <<"str", id[2]>>

\* The column ids of the model, and the ids a preset can name: "7" is a
\* string that no column has as its id, 7 is a number.
ColumnIds == {StrId("A"), StrId("B"), NumId("7")}
PresetIds == ColumnIds \cup {StrId("7")}
NoId == <<"undefined", "">>

\* SortDirectionString
Directions == {"ASC", "DESC", "asc"}

\* A Column, and the absence of one (an undefined sortCol).
Column(id) == [defined |-> TRUE, id |-> id]
NoColumn == [defined |-> FALSE, id |-> NoId]

\* A SortChanged: one pair of a sort gesture, or one entry of the list
\* loadLocalPresets builds (which also carries columnId).
SortChanged(columnId, sortAsc, sortCol) ==
    [columnId |-> columnId, sortAsc |-> sortAsc, sortCol |-> sortCol]

\* A value that is an array, and one that is not (undefined).
Array(list) == [isArray |-> TRUE, list |-> list]
NoArray == [isArray |-> FALSE, list |-> <<>>]

\* All sequences over S of length at most n.
SeqsUpTo(S, n) == UNION {[1..k -> S] : k \in 0..n}

\* Column-definition lists: distinct ids, at most n of them.
ColumnLists(ids, n) ==
    {[k \in 1..Len(q) |-> Column(q[k])] :
        q \in {p \in SeqsUpTo(ids, n) : \A a, b \in 1..Len(p) : a # b => p[a] # p[b]}}

\* What the asynchronous process step can resolve to; "undefined" stands
\* for the falsy results (undefined, null, empty).
Results == {"undefined", "r1"}
Truthy(r) == r # "undefined"

\* A backend api object (BackendServiceApi): which members are set.
\* service: "none" (unset), "plain" (a service without getCurrentSorters),
\* "full" (a service with getCurrentSorters).
Api(proc, svc, pre, ipp, pp) ==
    [defined |-> TRUE, process |-> proc, service |-> svc, preProcess |-> pre,
     internalPostProcess |-> ipp, postProcess |-> pp]
NoApi ==
    [defined |-> FALSE, process |-> FALSE, service |-> "none", preProcess |-> FALSE,
     internalPostProcess |-> FALSE, postProcess |-> FALSE]

CompleteApis ==
    {Api(TRUE, svc, pre, ipp, pp) :
        svc \in {"plain", "full"}, pre \in BOOLEAN, ipp \in BOOLEAN, pp \in BOOLEAN}
IncompleteApis == {Api(FALSE, "full", TRUE, TRUE, TRUE), Api(TRUE, "none", TRUE, TRUE, TRUE)}

NoPresets == [kind |-> "undefined", sorters |-> <<>>]

\* A GridOption object: the members the service reads.
Options(bsa, obea, presets) ==
    [defined |-> TRUE, backendServiceApi |-> bsa, onBackendEventApi |-> obea,
     presets |-> presets]
NoOptions ==
    [defined |-> FALSE, backendServiceApi |-> NoApi, onBackendEventApi |-> NoApi,
     presets |-> NoPresets]

\* The grid options a backend-mode grid is configured with.  When
\* backendServiceApi is set, onBackendEventApi is never read (line 37), so one
\* representative of it is enough.
BackendGridOptions ==
    {NoOptions, Options(NoApi, NoApi, NoPresets)}
    \cup {Options(a, NoApi, NoPresets) : a \in CompleteApis \cup IncompleteApis}
    \cup {Options(NoApi, a, NoPresets) : a \in CompleteApis \cup IncompleteApis}
    \cup {Options(a, Api(TRUE, "full", TRUE, TRUE, TRUE), NoPresets) :
            a \in {Api(FALSE, "full", TRUE, TRUE, TRUE), Api(TRUE, "full", FALSE, TRUE, TRUE)}}

\* The sorter lists the backend service can report as its current sorters.
ServiceSorterLists ==
    {<<>>, <<Sorter(StrId("A"), ASC), Sorter(StrId("B"), DESC)>>}

\* The payload of a grid sort event as the backend handler reads it:
\* "undefined" (no args), "nogrid" (args without a grid), "ok".
BackendArgs == {"undefined", "nogrid", "ok"}

VARIABLES
    _gridOptions,          \* this._gridOptions, also what grid.getOptions() returns
    _currentLocalSorters,  \* this._currentLocalSorters
    _slickSubscriber,      \* handlers subscribed on grid.onSort, in order
    _eventHandler,         \* data-view events subscribed through this._eventHandler
    serviceSorters,        \* state of the backend service: its current sorters
    invocations,           \* one record per call of attachBackendOnSortSubscribe
    log,                   \* backend mode: calls made on the collaborators, in order
    columnDefinitions,     \* the column definitions given to attachLocalOnSort
    rowCount,              \* rows the data view holds
    event,                 \* the event last handled (or dispose), with its row counts
    sortedBy,              \* sortColumns of the comparator last given to dataView.sort
    gridSortColumns,       \* argument of the latest grid.setSortColumns
    calls,                 \* the calls the handler of that event (or dispose) made
    thrown,                \* what that handler (or dispose) threw, "" if nothing
    comparison,            \* the latest call of the comparator given to dataView.sort
    disposed               \* calls of dispose() made so far

backendVars == <<serviceSorters, invocations, log>>
localVars == <<columnDefinitions, rowCount, event, sortedBy, gridSortColumns,
               calls, thrown, comparison>>
vars == <<_gridOptions, _currentLocalSorters, _slickSubscriber, _eventHandler,
          serviceSorters, invocations, log, columnDefinitions, rowCount, event,
          sortedBy, gridSortColumns, calls, thrown, comparison, disposed>>

\* An event delivered to a local-mode handler: grid.onSort, or
\* dataView.onRowCountChanged with its args.previous and args.current.
Event(name, previous, current) == [name |-> name, previous |-> previous, current |-> current]
NoEvent == Event("none", 0, 0)

\* A data row: the value of each field the columns of the model read.  The
\* values are positions in the order of the field's type.
RowFields == {"a", "q", "f"}
Values == {1, 2}
Rows == [RowFields -> Values]

\* One call of the comparator: the two rows and what it returned or threw.
Comparison(dataRow1, dataRow2, result, threw) ==
    [made |-> TRUE, dataRow1 |-> dataRow1, dataRow2 |-> dataRow2, result |-> result,
     threw |-> threw]
NoComparison ==
    [made |-> FALSE, dataRow1 |-> [f \in RowFields |-> 1],
     dataRow2 |-> [f \in RowFields |-> 1], result |-> 0, threw |-> FALSE]

\* One call on a collaborator, made by handler invocation i.
Call(i, ev, sorters, result) == [inv |-> i, ev |-> ev, sorters |-> sorters, result |-> result]

(***************************************************************************)
(* Construction (lines 11-16).                                             *)
(***************************************************************************)
Init ==
    /\ _gridOptions = NoOptions
    /\ _currentLocalSorters = <<>>
    /\ _slickSubscriber = <<>>
    /\ _eventHandler = {}
    /\ serviceSorters = <<>>
    /\ invocations = <<>>
    /\ log = <<>>
    /\ columnDefinitions = <<>>
    /\ rowCount = 0
    /\ event = NoEvent
    /\ sortedBy = NoArray
    /\ gridSortColumns = <<>>
    /\ calls = <<>>
    /\ thrown = ""
    /\ comparison = NoComparison
    /\ disposed = 0

(***************************************************************************)
(* emitSortChanged (lines 181-192): the values sent on onSortChanged.      *)
(***************************************************************************)
emitSortChanged(i, sender, opts, svcSorters, localSorters) ==
    IF sender = "remote" /\ opts.defined /\ opts.backendServiceApi.defined
    THEN LET backendService == opts.backendServiceApi.service
             currentSorters == IF backendService = "full" THEN svcSorters ELSE <<>>
         IN  <<Call(i, "onSortChanged.next", currentSorters, "")>>
    ELSE IF sender = "local"
    THEN <<Call(i, "onSortChanged.next", localSorters, "")>>
    ELSE <<>>

(***************************************************************************)
(* attachBackendOnSort (lines 23-30).                                      *)
(***************************************************************************)
attachBackendOnSort(gridOptions) ==
    /\ _slickSubscriber = <<>>
    /\ _gridOptions' = gridOptions
    /\ _slickSubscriber' = Append(_slickSubscriber, "backend")
    /\ UNCHANGED <<_currentLocalSorters, _eventHandler, backendVars, localVars, disposed>>

(***************************************************************************)
(* attachBackendOnSortSubscribe (lines 32-62).                             *)
(***************************************************************************)
\* line 33
ValidArgs(args) == args = "ok"

\* lines 36-37: args.grid.getOptions() || {}, then the api of either key
SelectBackendApi(opts) ==
    IF opts.defined /\ opts.backendServiceApi.defined
    THEN opts.backendServiceApi
    ELSE IF opts.defined THEN opts.onBackendEventApi ELSE NoApi

\* line 39 without the check of the service
ValidContractProcessOnly(backendApi) ==
    backendApi.defined /\ backendApi.process

\* line 39
ValidContract(backendApi) ==
    backendApi.defined /\ backendApi.process /\ backendApi.service # "none"

\* lines 42-50 with the broadcast moved behind the call of process
SyncCallsBroadcastAfterProcess(i, backendApi, opts, s) ==
    (IF backendApi.preProcess THEN <<Call(i, "preProcess", <<>>, "")>> ELSE <<>>)
    \o <<Call(i, "service.onSortChanged", s, "")>>
    \o <<Call(i, "process", s, "")>>
    \o emitSortChanged(i, "remote", opts, s, _currentLocalSorters)

\* lines 42-50: the calls made before the await; `s` is what the service
\* holds as its current sorters once its onSortChanged has returned, and the
\* query it returns is built from them.
SyncCalls(i, backendApi, opts, s) ==
    (IF backendApi.preProcess THEN <<Call(i, "preProcess", <<>>, "")>> ELSE <<>>)
    \o <<Call(i, "service.onSortChanged", s, "")>>
    \o emitSortChanged(i, "remote", opts, s, _currentLocalSorters)
    \o <<Call(i, "process", s, "")>>

\* lines 53-61 with the two hooks in the other order
PostCallsSwapped(i, backendApi, processResult) ==
    (IF backendApi.postProcess
     THEN <<Call(i, "postProcess", <<>>, processResult)>> ELSE <<>>)
    \o (IF Truthy(processResult) /\ backendApi.internalPostProcess
        THEN <<Call(i, "internalPostProcess", <<>>, processResult)>> ELSE <<>>)

\* lines 53-61 with postProcess called without the result
PostCallsWithoutResult(i, backendApi, processResult) ==
    (IF Truthy(processResult) /\ backendApi.internalPostProcess
     THEN <<Call(i, "internalPostProcess", <<>>, processResult)>> ELSE <<>>)
    \o (IF backendApi.postProcess
        THEN <<Call(i, "postProcess", <<>>, "undefined")>> ELSE <<>>)

\* lines 53-61: the calls made once the awaited result is there
PostCalls(i, backendApi, processResult) ==
    (IF Truthy(processResult) /\ backendApi.internalPostProcess
     THEN <<Call(i, "internalPostProcess", <<>>, processResult)>> ELSE <<>>)
    \o (IF backendApi.postProcess
        THEN <<Call(i, "postProcess", <<>>, processResult)>> ELSE <<>>)

\* line 51 with the completion hook run in a finally block
RejectCallsPostProcess(i, backendApi) ==
    IF backendApi.postProcess THEN <<Call(i, "postProcess", <<>>, "undefined")>> ELSE <<>>

\* line 51: a rejected await leaves the function; nothing after it runs
RejectCalls(i, backendApi) == <<>>

\* lines 51-61 with a guard that drops the result of a superseded invocation
ContinuationLatestOnly(i, invs, processResult) ==
    IF i = Len(invs) THEN PostCalls(i, invs[i].api, processResult) ELSE <<>>

\* lines 51-61: what invocation i does when its own await resolves, whatever
\* the other invocations are doing
Continuation(i, invs, processResult) == PostCalls(i, invs[i].api, processResult)

Invocation(args, status, error, api, s, result) ==
    [args |-> args, status |-> status, error |-> error, api |-> api,
     sorters |-> s, result |-> result]

\* lines 32-51: the grid notifies a sort gesture; the handler runs to its await
attachBackendOnSortSubscribe(args) ==
    /\ \E k \in 1..Len(_slickSubscriber) : _slickSubscriber[k] = "backend"
    /\ Len(invocations) < MaxGestures
    /\ LET i == Len(invocations) + 1
           gridOptions == _gridOptions
           backendApi == SelectBackendApi(gridOptions)
       IN  IF ~ValidArgs(args)
           THEN /\ invocations' = Append(invocations,
                        Invocation(args, "threw", "InvalidArgs", NoApi, <<>>, ""))
                /\ UNCHANGED <<serviceSorters, log>>
           ELSE IF ~ValidContract(backendApi)
           THEN /\ invocations' = Append(invocations,
                        Invocation(args, "threw", "NoContract", NoApi, <<>>, ""))
                /\ UNCHANGED <<serviceSorters, log>>
           ELSE \E s \in ServiceSorterLists :
                /\ serviceSorters' = s
                /\ log' = log \o SyncCalls(i, backendApi, gridOptions, s)
                /\ invocations' = Append(invocations,
                        Invocation(args, "pending", "", backendApi, s, ""))
    /\ UNCHANGED <<_gridOptions, _currentLocalSorters, _slickSubscriber, _eventHandler,
                   localVars, disposed>>

\* lines 51-61: the awaited result of invocation i resolves
Resolve(i, processResult) ==
    /\ i \in 1..Len(invocations)
    /\ invocations[i].status = "pending"
    /\ log' = log \o <<Call(i, "resolved", <<>>, processResult)>>
                  \o Continuation(i, invocations, processResult)
    /\ invocations' = [invocations EXCEPT ![i].status = "resolved",
                                          ![i].result = processResult]
    /\ UNCHANGED <<_gridOptions, _currentLocalSorters, _slickSubscriber, _eventHandler,
                   serviceSorters, localVars, disposed>>

\* line 51: the awaited result of invocation i rejects
Reject(i) ==
    /\ i \in 1..Len(invocations)
    /\ invocations[i].status = "pending"
    /\ log' = log \o <<Call(i, "rejected", <<>>, "")>>
                  \o RejectCalls(i, invocations[i].api)
    /\ invocations' = [invocations EXCEPT ![i].status = "rejected",
                                          ![i].error = "Rejected"]
    /\ UNCHANGED <<_gridOptions, _currentLocalSorters, _slickSubscriber, _eventHandler,
                   serviceSorters, localVars, disposed>>

(***************************************************************************)
(* Backend mode: the service is attached with attachBackendOnSort.         *)
(***************************************************************************)
NextBackend ==
    \/ /\ _slickSubscriber = <<>>
       /\ \E gridOptions \in BackendGridOptions : attachBackendOnSort(gridOptions)
    \/ \E args \in BackendArgs : attachBackendOnSortSubscribe(args)
    \/ \E i \in 1..MaxGestures, r \in Results : Resolve(i, r)
    \/ \E i \in 1..MaxGestures : Reject(i)

SpecBackend == Init /\ [][NextBackend]_vars

(***************************************************************************)
(* Local mode.                                                             *)
(***************************************************************************)
\* The payload of a grid sort event as the local handler reads it.
NoArgs ==
    [defined |-> FALSE, multiColumnSort |-> FALSE, sortCols |-> NoArray,
     sortAsc |-> FALSE, sortCol |-> NoColumn]
SingleArgs(sortAsc, sortCol) ==
    [defined |-> TRUE, multiColumnSort |-> FALSE, sortCols |-> NoArray,
     sortAsc |-> sortAsc, sortCol |-> sortCol]
MultiArgs(sortCols) ==
    [defined |-> TRUE, multiColumnSort |-> TRUE, sortCols |-> sortCols,
     sortAsc |-> FALSE, sortCol |-> NoColumn]

\* The {sortCol, sortAsc} pairs over the columns `ids`, the column may be missing.
Pairs(ids) ==
    {SortChanged(NoId, asc, c) :
        asc \in BOOLEAN, c \in {Column(id) : id \in ids} \cup {NoColumn}}

\* The pairs of the multi-column gestures: each column in one direction
\* (the single-column gestures take both), and a pair without a column.
MultiPairs(ids) ==
    {SortChanged(NoId, id[1] = "str", Column(id)) : id \in ids}
    \cup {SortChanged(NoId, TRUE, NoColumn)}

\* The sort gestures over the columns `ids`: no payload, a single-column
\* gesture, a multi-column one with or without its sequence of pairs.
LocalArgs(ids) ==
    {NoArgs}
    \cup {SingleArgs(p.sortAsc, p.sortCol) : p \in Pairs(ids)}
    \cup {MultiArgs(NoArray)}
    \cup {MultiArgs(Array(l)) : l \in SeqsUpTo(MultiPairs(ids), MaxSortCols)}

\* presets of a GridOption: unset, set without sorters, set with sorters
Presets(sorters) == [kind |-> "sorters", sorters |-> sorters]
PresetsWithoutSorters == [kind |-> "noSorters", sorters |-> <<>>]

\* The grid options of a local-mode grid, with preset lists drawn from `lists`.
LocalGridOptions(lists) ==
    {NoOptions, Options(NoApi, NoApi, NoPresets), Options(NoApi, NoApi, PresetsWithoutSorters)}
    \cup {Options(NoApi, NoApi, Presets(l)) : l \in lists}

\* Array.prototype.sort calls the comparator only when there are two rows
\* to compare (line 148, through DataView.sort).
ComparatorCalled(rows) == rows >= 2

\* lines 147-164 returning before the sort when no pair carries a column
onLocalSortChangedSkipsUnbound(sortColumns, rows) ==
    IF ~sortColumns.isArray /\ ComparatorCalled(rows)
    THEN [threw |-> TRUE, calls |-> <<Call(0, "dataView.sort", <<>>, "")>>]
    ELSE IF \A k \in 1..Len(sortColumns.list) : ~sortColumns.list[k].sortCol.defined
    THEN [threw |-> FALSE, calls |-> <<>>]
    ELSE [threw |-> FALSE,
          calls |-> <<Call(0, "dataView.sort", <<>>, ""),
                      Call(0, "grid.invalidate", <<>>, ""),
                      Call(0, "grid.render", <<>>, "")>>]

\* lines 147-164: onLocalSortChanged; the comparator reads sortColumns.length
\* (line 149), which throws when sortColumns is not an array.
onLocalSortChanged(sortColumns, rows) ==
    IF ~sortColumns.isArray /\ ComparatorCalled(rows)
    THEN [threw |-> TRUE, calls |-> <<Call(0, "dataView.sort", <<>>, "")>>]
    ELSE [threw |-> FALSE,
          calls |-> <<Call(0, "dataView.sort", <<>>, ""),
                      Call(0, "grid.invalidate", <<>>, ""),
                      Call(0, "grid.render", <<>>, "")>>]

\* lines 83-90 with every kept pair recorded as ascending
RECURSIVE GestureSortersAscending(_)
GestureSortersAscending(list) ==
    IF list = <<>> THEN <<>>
    ELSE LET sortColumn == Head(list)
         IN  (IF sortColumn.sortCol.defined
              THEN <<Sorter(sortColumn.sortCol.id, ASC)>>
              ELSE <<>>)
             \o GestureSortersAscending(Tail(list))

\* lines 83-90: the sorters kept for a gesture's pairs
RECURSIVE GestureSorters(_)
GestureSorters(list) ==
    IF list = <<>> THEN <<>>
    ELSE LET sortColumn == Head(list)
         IN  (IF sortColumn.sortCol.defined
              THEN <<Sorter(sortColumn.sortCol.id, IF sortColumn.sortAsc THEN ASC ELSE DESC)>>
              ELSE <<>>)
             \o GestureSorters(Tail(list))

\* lines 122-124: sorters.find(...), as the index of the first match, 0 if none
find(sorters, id) ==
    IF \E k \in 1..Len(sorters) : sorters[k].columnId = id
    THEN CHOOSE k \in 1..Len(sorters) :
            /\ sorters[k].columnId = id
            /\ \A j \in 1..(k - 1) : sorters[j].columnId # id
    ELSE 0

\* lines 121-131: the sortCols list built from the presets
RECURSIVE PresetSortCols(_, _)
PresetSortCols(columnDefs, sorters) ==
    IF columnDefs = <<>> THEN <<>>
    ELSE LET columnDef == Head(columnDefs)
             k == find(sorters, columnDef.id)
         IN  (IF k # 0
              THEN <<SortChanged(columnDef.id,
                                 toUpperCase(sorters[k].direction) = ASC, columnDef)>>
              ELSE <<>>)
             \o PresetSortCols(Tail(columnDefs), sorters)

\* lines 121-137 with the loop run over the presets instead of the columns
RECURSIVE PresetSortersInPresetOrder(_, _)
PresetSortersInPresetOrder(columnDefs, sorters) ==
    IF sorters = <<>> THEN <<>>
    ELSE LET preset == Head(sorters)
         IN  (IF \E k \in 1..Len(columnDefs) : columnDefs[k].id = preset.columnId
              THEN <<Sorter(IdToString(preset.columnId), toUpperCase(preset.direction))>>
              ELSE <<>>)
             \o PresetSortersInPresetOrder(columnDefs, Tail(sorters))

\* lines 121-137: the current sorters kept for the presets
RECURSIVE PresetSorters(_, _)
PresetSorters(columnDefs, sorters) ==
    IF columnDefs = <<>> THEN <<>>
    ELSE LET columnDef == Head(columnDefs)
             k == find(sorters, columnDef.id)
         IN  (IF k # 0
              THEN <<Sorter(IdToString(columnDef.id), toUpperCase(sorters[k].direction))>>
              ELSE <<>>)
             \o PresetSorters(Tail(columnDefs), sorters)

\* line 119
HasPresetSorters(gridOptions) == gridOptions.defined /\ gridOptions.presets.kind = "sorters"

\* line 99
LoadsPresets(args) == args.current > 0

(***************************************************************************)
(* attachLocalOnSort (lines 70-103).                                       *)
(***************************************************************************)
attachLocalOnSort(gridOptions, columnDefs) ==
    /\ _slickSubscriber = <<>>
    /\ _gridOptions' = gridOptions
    /\ columnDefinitions' = columnDefs
    /\ _slickSubscriber' = Append(_slickSubscriber, "local")
    /\ _eventHandler' = _eventHandler \cup {"onRowCountChanged"}
    /\ UNCHANGED <<_currentLocalSorters, backendVars, rowCount, event, sortedBy,
                   gridSortColumns, calls, thrown, comparison, disposed>>

\* lines 75-95: the grid notifies a sort gesture to the local handler
LocalOnSort(args) ==
    /\ \E k \in 1..Len(_slickSubscriber) : _slickSubscriber[k] = "local"
    /\ IF ~args.defined
       THEN \* line 78: args.multiColumnSort of undefined
            /\ calls' = <<>>
            /\ thrown' = "TypeError"
            /\ UNCHANGED <<_currentLocalSorters, sortedBy, comparison>>
       ELSE LET sortColumns ==
                    IF args.multiColumnSort THEN args.sortCols
                    ELSE Array(<<SortChanged(NoId, args.sortAsc, args.sortCol)>>)
                sorters == IF sortColumns.isArray THEN GestureSorters(sortColumns.list)
                           ELSE <<>>
                sorted == onLocalSortChanged(sortColumns, rowCount)
            IN  /\ _currentLocalSorters' = sorters
                /\ sortedBy' = sortColumns
                /\ comparison' = NoComparison
                /\ calls' = sorted.calls
                        \o (IF sorted.threw THEN <<>>
                            ELSE emitSortChanged(0, "local", _gridOptions, <<>>,
                                                 _currentLocalSorters'))
                /\ thrown' = IF sorted.threw THEN "TypeError" ELSE ""
    /\ event' = Event("onSort", 0, 0)
    /\ UNCHANGED <<_gridOptions, _slickSubscriber, _eventHandler, backendVars,
                   columnDefinitions, rowCount, gridSortColumns, disposed>>

\* lines 116-145 without the guard of line 140
loadLocalPresetsUnguarded(gridOptions, columnDefs) ==
    LET sorters == gridOptions.presets.sorters
        sortCols == IF HasPresetSorters(gridOptions)
                    THEN PresetSortCols(columnDefs, sorters) ELSE <<>>
        current == IF HasPresetSorters(gridOptions)
                   THEN PresetSorters(columnDefs, sorters) ELSE <<>>
    IN  [_currentLocalSorters |-> current,
         sorts |-> TRUE,
         sortCols |-> sortCols,
         calls |-> <<Call(0, "loadLocalPresets", <<>>, "")>>
                   \o onLocalSortChanged(Array(sortCols), rowCount').calls
                   \o <<Call(0, "grid.setSortColumns", <<>>, "")>>]

\* lines 116-145: loadLocalPresets, as the state and the calls it leaves
loadLocalPresets(gridOptions, columnDefs) ==
    LET sorters == gridOptions.presets.sorters
        sortCols == IF HasPresetSorters(gridOptions)
                    THEN PresetSortCols(columnDefs, sorters) ELSE <<>>
        current == IF HasPresetSorters(gridOptions)
                   THEN PresetSorters(columnDefs, sorters) ELSE <<>>
    IN  [_currentLocalSorters |-> current,
         sorts |-> Len(sortCols) > 0,
         sortCols |-> sortCols,
         calls |-> <<Call(0, "loadLocalPresets", <<>>, "")>>
                   \o (IF Len(sortCols) > 0
                       THEN onLocalSortChanged(Array(sortCols), rowCount').calls
                            \o <<Call(0, "grid.setSortColumns", <<>>, "")>>
                       ELSE <<>>)]

\* lines 97-102: the data view's row count changes; its onRowCountChanged
\* event reaches the handler subscribed through this._eventHandler
RowCountChanged(current) ==
    /\ current # rowCount
    /\ rowCount' = current
    /\ LET args == Event("onRowCountChanged", rowCount, current)
       IN  IF "onRowCountChanged" \notin _eventHandler
           THEN UNCHANGED <<_currentLocalSorters, event, sortedBy, gridSortColumns,
                            calls, thrown, comparison>>
           ELSE /\ event' = args
                /\ thrown' = ""
                /\ IF LoadsPresets(args)
                   THEN \E loaded \in {loadLocalPresets(_gridOptions, columnDefinitions)} :
                            /\ _currentLocalSorters' = loaded._currentLocalSorters
                            /\ sortedBy' = IF loaded.sorts THEN Array(loaded.sortCols)
                                           ELSE sortedBy
                            /\ gridSortColumns' = IF loaded.sorts THEN loaded.sortCols
                                                  ELSE gridSortColumns
                            /\ comparison' = IF loaded.sorts THEN NoComparison
                                             ELSE comparison
                            /\ calls' = loaded.calls
                   ELSE /\ calls' = <<>>
                        /\ UNCHANGED <<_currentLocalSorters, sortedBy, gridSortColumns,
                                       comparison>>
    /\ UNCHANGED <<_gridOptions, _slickSubscriber, _eventHandler, backendVars,
                   columnDefinitions, disposed>>

\* Local mode with gestures: two columns, at most one preset.
GestureColumnIds == {StrId("A"), NumId("7")}
GesturePresetLists ==
    {<<>>, <<Sorter(StrId("A"), "desc")>>, <<Sorter(NumId("7"), "ASC")>>,
     <<Sorter(StrId("7"), "asc")>>}

GestureGridOptions == LocalGridOptions(GesturePresetLists)
GestureColumnLists == ColumnLists(GestureColumnIds, MaxColumns)
GestureArgs == LocalArgs(GestureColumnIds)

NextLocal ==
    \/ /\ _slickSubscriber = <<>>
       /\ \E gridOptions \in GestureGridOptions, columnDefs \in GestureColumnLists :
            attachLocalOnSort(gridOptions, columnDefs)
    \/ \E args \in GestureArgs : LocalOnSort(args)
    \/ \E current \in 0..MaxRows : RowCountChanged(current)

SpecLocal == Init /\ [][NextLocal]_vars

\* Local mode, the preset load alone: every column list and preset list.
PresetLists == SeqsUpTo({Sorter(id, d) : id \in PresetIds, d \in Directions}, MaxPresets)

PresetGridOptions == LocalGridOptions(PresetLists)
PresetColumnLists == ColumnLists(ColumnIds, MaxColumns)

NextPresets ==
    \/ /\ _slickSubscriber = <<>>
       /\ \E gridOptions \in PresetGridOptions, columnDefs \in PresetColumnLists :
            attachLocalOnSort(gridOptions, columnDefs)
    \/ \E current \in 0..MaxRows : RowCountChanged(current)

SpecPresets == Init /\ [][NextPresets]_vars

(***************************************************************************)
(* dispose (lines 166-174).                                                *)
(***************************************************************************)
\* Slick.Event.unsubscribe(fn), the grid's event channel: it removes the
\* subscribed handlers that are fn.  The service keeps no reference to the
\* handlers it subscribed (a fresh bound function on line 29, an arrow
\* function on line 75).
unsubscribe(handlers, fn) == SelectSeq(handlers, LAMBDA h : h # fn)

\* Slick.EventHandler.unsubscribeAll(): every subscription made through the
\* handler is released
unsubscribeAll(subscriptions) == {}

\* line 168 without its guard
CanUnsubscribeUnguarded(subscribed) == TRUE

\* line 168: this._slickSubscriber && typeof this._slickSubscriber.unsubscribe
\* === 'function'; this._slickSubscriber is set by the attach operations
CanUnsubscribe(subscribed) == subscribed

\* lines 166-174; line 170 calls unsubscribe() without an argument
dispose ==
    /\ disposed < MaxDisposals
    /\ LET subscribed == _slickSubscriber # <<>>
       IN  IF CanUnsubscribe(subscribed) /\ ~subscribed
           THEN \* unsubscribe of undefined
                /\ thrown' = "TypeError"
                /\ calls' = <<>>
                /\ UNCHANGED <<_slickSubscriber, _eventHandler>>
           ELSE /\ _slickSubscriber' = IF CanUnsubscribe(subscribed)
                                       THEN unsubscribe(_slickSubscriber, "undefined")
                                       ELSE _slickSubscriber
                /\ _eventHandler' = unsubscribeAll(_eventHandler)
                /\ thrown' = ""
                /\ calls' = (IF CanUnsubscribe(subscribed)
                             THEN <<Call(0, "onSort.unsubscribe", <<>>, "")>> ELSE <<>>)
                            \o <<Call(0, "_eventHandler.unsubscribeAll", <<>>, "")>>
    /\ event' = Event("dispose", 0, 0)
    /\ disposed' = disposed + 1
    /\ UNCHANGED <<_gridOptions, _currentLocalSorters, backendVars, columnDefinitions,
                   rowCount, sortedBy, gridSortColumns, comparison>>

\* The service from construction to disposal, in either mode: one backend
\* configuration, local configurations with and without a preset, gestures
\* on one column.  The host attaches before it disposes.
DisposeBackendOptions == {Options(Api(TRUE, "full", TRUE, TRUE, TRUE), NoApi, NoPresets)}
DisposeGridOptions ==
    {Options(NoApi, NoApi, NoPresets),
     Options(NoApi, NoApi, Presets(<<Sorter(StrId("A"), "desc")>>))}
DisposeColumnLists == {<<Column(StrId("A"))>>}
DisposeArgs ==
    {NoArgs, SingleArgs(TRUE, Column(StrId("A"))), SingleArgs(FALSE, Column(StrId("A")))}

NextDispose ==
    \/ /\ _slickSubscriber = <<>>
       /\ disposed = 0
       /\ \E gridOptions \in DisposeBackendOptions : attachBackendOnSort(gridOptions)
    \/ /\ _slickSubscriber = <<>>
       /\ disposed = 0
       /\ \E gridOptions \in DisposeGridOptions, columnDefs \in DisposeColumnLists :
            attachLocalOnSort(gridOptions, columnDefs)
    \/ \E args \in BackendArgs : attachBackendOnSortSubscribe(args)
    \/ \E i \in 1..MaxGestures, r \in Results : Resolve(i, r)
    \/ \E i \in 1..MaxGestures : Reject(i)
    \/ \E args \in DisposeArgs : LocalOnSort(args)
    \/ \E current \in 0..MaxRows : RowCountChanged(current)
    \/ dispose

SpecDispose == Init /\ [][NextDispose]_vars

(***************************************************************************)
(* The comparator onLocalSortChanged gives to dataView.sort (lines 148-161).*)
(***************************************************************************)
\* The properties of a column the comparator reads (lines 153-154); "" is a
\* property that is not set.  Every column has a field; column B declares
\* both overrides, column 7 the filter-level one and a type.
ColumnField(sortCol) == "a"
ColumnQueryField(sortCol) == IF sortCol.id = StrId("B") THEN "q" ELSE ""
ColumnQueryFieldFilter(sortCol) ==
    IF sortCol.id \in {StrId("B"), NumId("7")} THEN "f" ELSE ""
ColumnType(sortCol) == IF sortCol.id = NumId("7") THEN "number" ELSE ""

\* line 153 with the filter-level override read first
SortFieldFilterFirst(sortCol) ==
    IF ColumnQueryFieldFilter(sortCol) # "" THEN ColumnQueryFieldFilter(sortCol)
    ELSE IF ColumnQueryField(sortCol) # "" THEN ColumnQueryField(sortCol)
    ELSE ColumnField(sortCol)

\* line 153: sortCol.queryField || sortCol.queryFieldFilter || sortCol.field
SortField(sortCol) ==
    IF ColumnQueryField(sortCol) # "" THEN ColumnQueryField(sortCol)
    ELSE IF ColumnQueryFieldFilter(sortCol) # "" THEN ColumnQueryFieldFilter(sortCol)
    ELSE ColumnField(sortCol)

\* line 154: sortCol.type || FieldType.string
SortFieldType(sortCol) == IF ColumnType(sortCol) # "" THEN ColumnType(sortCol) ELSE "string"

\* sortByFieldType of ../sorters/sorterUtilities: the two values compared in
\* the order of the field type, times the sort direction.  The values of
\* the model are positions in that order, whatever the type.
sortByFieldType(value1, value2, fieldType, sortDirection) ==
    sortDirection * (IF value1 < value2 THEN -1 ELSE IF value1 > value2 THEN 1 ELSE 0)

\* lines 148-161 going on to the next pair when the values tie
RECURSIVE comparatorCascading(_, _, _)
comparatorCascading(sortColumns, dataRow1, dataRow2) ==
    IF sortColumns = <<>> THEN 0
    ELSE LET columnSortObj == Head(sortColumns)
             sortDirection == IF columnSortObj.sortAsc THEN 1 ELSE -1
             sortField == SortField(columnSortObj.sortCol)
             fieldType == SortFieldType(columnSortObj.sortCol)
             result == sortByFieldType(dataRow1[sortField], dataRow2[sortField],
                                       fieldType, sortDirection)
         IN  IF columnSortObj.sortCol.defined /\ result # 0
             THEN result
             ELSE comparatorCascading(Tail(sortColumns), dataRow1, dataRow2)

\* lines 148-161: the comparator over the array sortColumns
RECURSIVE comparator(_, _, _)
comparator(sortColumns, dataRow1, dataRow2) ==
    IF sortColumns = <<>> THEN 0
    ELSE LET columnSortObj == Head(sortColumns)
             sortDirection == IF columnSortObj.sortAsc THEN 1 ELSE -1
             sortField == SortField(columnSortObj.sortCol)
             fieldType == SortFieldType(columnSortObj.sortCol)
         IN  IF columnSortObj.sortCol.defined
             THEN sortByFieldType(dataRow1[sortField], dataRow2[sortField],
                                  fieldType, sortDirection)
             ELSE comparator(Tail(sortColumns), dataRow1, dataRow2)

\* line 148: the data view, sorting for the latest handler, compares two of
\* its rows with the comparator it was given; the comparator throws on
\* sortColumns.length when sortColumns is not an array (line 149)
Compare(dataRow1, dataRow2) ==
    /\ \E k \in 1..Len(calls) : calls[k].ev = "dataView.sort"
    /\ ComparatorCalled(rowCount)
    /\ comparison' =
           IF sortedBy.isArray
           THEN Comparison(dataRow1, dataRow2,
                           comparator(sortedBy.list, dataRow1, dataRow2), FALSE)
           ELSE Comparison(dataRow1, dataRow2, 0, TRUE)
    /\ UNCHANGED <<_gridOptions, _currentLocalSorters, _slickSubscriber, _eventHandler,
                   backendVars, columnDefinitions, rowCount, event, sortedBy,
                   gridSortColumns, calls, thrown, disposed>>

\* Local mode with the rows compared: three columns, a preset on column B,
\* multi-column gestures over an ascending pair on A, a descending pair on B
\* and a pair without a column.
ComparatorGridOptions ==
    {Options(NoApi, NoApi, NoPresets),
     Options(NoApi, NoApi, Presets(<<Sorter(StrId("B"), "DESC")>>))}
ComparatorColumnLists ==
    {<<Column(StrId("A")), Column(StrId("B")), Column(NumId("7"))>>}
ComparatorPairs ==
    {SortChanged(NoId, TRUE, Column(StrId("A"))),
     SortChanged(NoId, FALSE, Column(StrId("B"))),
     SortChanged(NoId, TRUE, NoColumn)}
ComparatorArgs ==
    {SingleArgs(p.sortAsc, p.sortCol) : p \in Pairs(ColumnIds)}
    \cup {MultiArgs(NoArray)}
    \cup {MultiArgs(Array(l)) : l \in SeqsUpTo(ComparatorPairs, MaxSortCols)}

NextComparator ==
    \/ /\ _slickSubscriber = <<>>
       /\ \E gridOptions \in ComparatorGridOptions, columnDefs \in ComparatorColumnLists :
            attachLocalOnSort(gridOptions, columnDefs)
    \/ \E args \in ComparatorArgs : LocalOnSort(args)
    \/ \E current \in 0..MaxRows : RowCountChanged(current)
    \/ \E dataRow1 \in Rows, dataRow2 \in Rows : Compare(dataRow1, dataRow2)

SpecComparator == Init /\ [][NextComparator]_vars

(***************************************************************************)
(* Properties of backend mode (checked under SpecBackend).                 *)
(***************************************************************************)
\* positions in log of the calls `ev` made by invocation i
At(i, ev) == {k \in 1..Len(log) : log[k].inv = i /\ log[k].ev = ev}

Invocations == 1..Len(invocations)
Resolved(i) == invocations[i].status = "resolved"
BothPostHooks(i) == invocations[i].api.internalPostProcess /\ invocations[i].api.postProcess

\* C1 as stated: in every resolved invocation with both post hooks configured,
\* each postProcess call is preceded by an internalPostProcess call of the
\* same invocation.
C1_PostProcessAlwaysPreceded ==
    \A i \in Invocations :
        Resolved(i) /\ BothPostHooks(i) =>
            \A k \in At(i, "postProcess") :
                \E j \in At(i, "internalPostProcess") : j < k

\* C1 amended: in every resolved invocation with both post hooks configured,
\* postProcess is called, never before internalPostProcess; it is preceded
\* by internalPostProcess when the resolved result is truthy, and runs alone
\* (internalPostProcess skipped) when the result is falsy.
C1_PostProcessAfterInternal ==
    \A i \in Invocations :
        Resolved(i) /\ BothPostHooks(i) =>
            /\ At(i, "postProcess") # {}
            /\ \A k \in At(i, "postProcess"), j \in At(i, "internalPostProcess") : j < k
            /\ Truthy(invocations[i].result) =>
                   \A k \in At(i, "postProcess") :
                       \E j \in At(i, "internalPostProcess") : j < k
            /\ ~Truthy(invocations[i].result) => At(i, "internalPostProcess") = {}

C1_Witness ==
    \E i \in Invocations :
        /\ Resolved(i) /\ BothPostHooks(i) /\ Truthy(invocations[i].result)
        /\ \E j \in At(i, "internalPostProcess"), k \in At(i, "postProcess") : j < k

\* The place of each call in the order of one invocation.
Rank(ev) ==
    CASE ev = "preProcess" -> 1
      [] ev = "service.onSortChanged" -> 2
      [] ev = "onSortChanged.next" -> 3
      [] ev = "process" -> 4
      [] ev = "resolved" -> 5
      [] ev = "rejected" -> 5
      [] ev = "internalPostProcess" -> 6
      [] ev = "postProcess" -> 7

C3_OneRemoteBroadcast ==
    \A i \in Invocations :
        invocations[i].status # "threw" =>
            /\ Cardinality(At(i, "onSortChanged.next")) = 1
            /\ \A k \in At(i, "onSortChanged.next") :
                   /\ \A p \in At(i, "process") : k < p
                   /\ invocations[i].api.service = "full" =>
                          log[k].sorters = invocations[i].sorters

\* An api object that holds a backend contract: process and service.
HoldsContract(api) == api.defined /\ api.process /\ api.service # "none"
LacksContract(opts) ==
    \/ ~opts.defined
    \/ ~HoldsContract(opts.backendServiceApi) /\ ~HoldsContract(opts.onBackendEventApi)

\* C4: a gesture with a malformed payload, or made when the grid options
\* hold no backend contract, fails with an error; it makes no call on any
\* collaborator, then or later, and leaves the current sorters (the local
\* list and the service's) unchanged.
C4_InvalidGestureFails ==
    /\ [](\A i \in Invocations :
            invocations[i].args # "ok" \/ LacksContract(_gridOptions) =>
                /\ invocations[i].status = "threw"
                /\ invocations[i].error \in {"InvalidArgs", "NoContract"}
                /\ \A k \in 1..Len(log) : log[k].inv # i)
    /\ [][Len(invocations') = Len(invocations) + 1
            /\ (invocations'[Len(invocations')].args # "ok" \/ LacksContract(_gridOptions))
          => UNCHANGED <<log, _currentLocalSorters, serviceSorters>>]_vars

C4_Witness ==
    /\ \E i \in Invocations : invocations[i].error = "InvalidArgs"
    /\ \E i \in Invocations :
           invocations[i].error = "NoContract" /\ invocations[i].args = "ok"

\* C5: when the awaited process result of an invocation rejects, the
\* invocation ends with that rejection, none of its post hooks is called
\* (the rejection is its last entry), and process was called exactly once
\* for the gesture.
C5_RejectionPropagates ==
    \A i \in Invocations :
        invocations[i].status = "rejected" =>
            /\ invocations[i].error = "Rejected"
            /\ At(i, "internalPostProcess") = {} /\ At(i, "postProcess") = {}
            /\ Cardinality(At(i, "process")) = 1
            /\ \A r \in At(i, "rejected") : \A k \in 1..Len(log) : log[k].inv = i => k <= r

C5_Witness ==
    \E i \in Invocations :
        /\ invocations[i].status = "rejected" /\ BothPostHooks(i)
        /\ At(i, "rejected") # {}

\* how often hook `ev` of invocation i was called with the invocation's result
TimesWithResult(i, ev) ==
    Cardinality({k \in At(i, ev) : log[k].result = invocations[i].result})

\* C6 as stated: in every resolved invocation each configured post hook is
\* called exactly once with the resolved result, whatever the result.
C6_EachHookOnce ==
    \A i \in Invocations :
        Resolved(i) =>
            /\ invocations[i].api.internalPostProcess =>
                   Cardinality(At(i, "internalPostProcess")) = 1
                   /\ TimesWithResult(i, "internalPostProcess") = 1
            /\ invocations[i].api.postProcess =>
                   Cardinality(At(i, "postProcess")) = 1
                   /\ TimesWithResult(i, "postProcess") = 1

\* C6 amended: in every resolved invocation postProcess is called exactly
\* once with the resolved result when configured, for every result;
\* internalPostProcess is called exactly once with that result when it is
\* configured and the result is truthy, and not at all when the result is
\* falsy; a hook that is not configured is not called.
C6_HooksGetResult ==
    \A i \in Invocations :
        Resolved(i) =>
            LET ipp == IF invocations[i].api.internalPostProcess
                          /\ Truthy(invocations[i].result) THEN 1 ELSE 0
                pp == IF invocations[i].api.postProcess THEN 1 ELSE 0
            IN  /\ Cardinality(At(i, "internalPostProcess")) = ipp
                /\ TimesWithResult(i, "internalPostProcess") = ipp
                /\ Cardinality(At(i, "postProcess")) = pp
                /\ TimesWithResult(i, "postProcess") = pp

C6_Witness ==
    /\ \E i \in Invocations :
           /\ Resolved(i) /\ BothPostHooks(i) /\ ~Truthy(invocations[i].result)
           /\ TimesWithResult(i, "postProcess") = 1
    /\ \E i \in Invocations :
           /\ Resolved(i) /\ BothPostHooks(i) /\ Truthy(invocations[i].result)
           /\ TimesWithResult(i, "internalPostProcess") = 1

\* C8: overlapping invocations are neither serialized nor cancelled: every
\* validated gesture has called process, whatever the other invocations are
\* doing; every invocation whose result resolved ran its own postProcess
\* (when configured) right at its resolution, with no call of another
\* invocation in between; so the post hooks of two invocations are in the
\* order of their resolutions.
C8_OverlapNotSerializedNotCancelled ==
    /\ \A i \in Invocations :
           invocations[i].status # "threw" => At(i, "process") # {}
    /\ \A i \in Invocations :
           Resolved(i) /\ invocations[i].api.postProcess =>
               \E r \in At(i, "resolved"), k \in At(i, "postProcess") :
                   r < k /\ \A l \in r..k : log[l].inv = i
    /\ \A i, j \in Invocations :
           \A ri \in At(i, "resolved"), rj \in At(j, "resolved") :
               ri < rj =>
                   \A hi \in At(i, "internalPostProcess") \cup At(i, "postProcess"),
                      hj \in At(j, "internalPostProcess") \cup At(j, "postProcess") :
                       hi < hj

\* the second gesture ran to its await while the first was pending, and
\* resolved first: its postProcess precedes the first one's
C8_Witness ==
    /\ Len(invocations) >= 2
    /\ \A p1 \in At(1, "process"), p2 \in At(2, "process"), r1 \in At(1, "resolved") :
           p1 < p2 /\ p2 < r1
    /\ \E h1 \in At(1, "postProcess"), h2 \in At(2, "postProcess") : h2 < h1

(***************************************************************************)
(* Properties of local mode (checked under SpecLocal and SpecPresets).     *)
(***************************************************************************)
\* how often the latest local-mode handler made the call `ev`
Times(ev) == Cardinality({c \in 1..Len(calls) : calls[c].ev = ev})

\* C7 as stated: a row-count-changed event invokes loadLocalPresets exactly
\* once when it is a change from zero rows to a positive count, and not at
\* all otherwise (positive to positive, or to zero).
C7_PresetsOnlyOnZeroToPositive ==
    event.name = "onRowCountChanged" =>
        Times("loadLocalPresets") =
            (IF event.previous = 0 /\ event.current > 0 THEN 1 ELSE 0)

\* C9 as stated: every completed sort is followed by exactly one emission on
\* onSortChanged carrying the resulting sorter list: a local gesture or a
\* preset load that sorted the data view emits the current local sorters,
\* and every validated backend gesture emits once.
C9_EveryCompletedSortEmits ==
    /\ Times("dataView.sort") > 0 /\ thrown = "" =>
           /\ Times("onSortChanged.next") = 1
           /\ \A c \in 1..Len(calls) :
                  calls[c].ev = "onSortChanged.next" =>
                      /\ calls[c].sorters = _currentLocalSorters
                      /\ \E d \in 1..(c - 1) : calls[d].ev = "dataView.sort"
    /\ \A i \in Invocations :
           invocations[i].status # "threw" =>
               Cardinality(At(i, "onSortChanged.next")) = 1

\* the sorter presets the grid options hold
ConfiguredPresets ==
    IF _gridOptions.defined /\ _gridOptions.presets.kind = "sorters"
    THEN _gridOptions.presets.sorters ELSE <<>>

\* the places, in the column definitions, of the columns a preset names
MatchedColumns ==
    {k \in 1..Len(columnDefinitions) :
        \E p \in 1..Len(ConfiguredPresets) :
            ConfiguredPresets[p].columnId = columnDefinitions[k].id}

\* the n-th of them, in column-definition order
NthMatched(n) ==
    CHOOSE k \in MatchedColumns : Cardinality({j \in MatchedColumns : j < k}) = n - 1

\* the direction of the (first) preset of the column at place k, as a SortDirection
PresetDirection(k) ==
    LET p == CHOOSE q \in 1..Len(ConfiguredPresets) :
                 /\ ConfiguredPresets[q].columnId = columnDefinitions[k].id
                 /\ \A r \in 1..(q - 1) :
                        ConfiguredPresets[r].columnId # columnDefinitions[k].id
    IN  toUpperCase(ConfiguredPresets[p].direction)

\* C10: after loadLocalPresets the current local sorters are the column
\* definitions a preset names, in column-definition order whatever the
\* order of the presets, each with the direction of its preset; when there
\* is one, the list given to dataView.sort and to grid.setSortColumns holds
\* the same columns in the same order with the same directions.
C10_PresetsInColumnOrder ==
    Times("loadLocalPresets") > 0 =>
        /\ Len(_currentLocalSorters) = Cardinality(MatchedColumns)
        /\ \A n \in 1..Len(_currentLocalSorters) :
               _currentLocalSorters[n] =
                   Sorter(IdToString(columnDefinitions[NthMatched(n)].id),
                          PresetDirection(NthMatched(n)))
        /\ MatchedColumns # {} =>
               /\ sortedBy.isArray
               /\ gridSortColumns = sortedBy.list
               /\ Len(sortedBy.list) = Cardinality(MatchedColumns)
               /\ \A n \in 1..Len(sortedBy.list) :
                      /\ sortedBy.list[n].sortCol = columnDefinitions[NthMatched(n)]
                      /\ sortedBy.list[n].sortAsc = (PresetDirection(NthMatched(n)) = ASC)

\* the example of the specification: definitions [A, B, C], presets
\* {B: DESC, A: ASC}
C10_Witness ==
    /\ Times("loadLocalPresets") > 0
    /\ Len(columnDefinitions) = 3
    /\ columnDefinitions[1].id = StrId("A") /\ columnDefinitions[2].id = StrId("B")
    /\ ConfiguredPresets = <<Sorter(StrId("B"), "DESC"), Sorter(StrId("A"), "ASC")>>
    /\ _currentLocalSorters = <<Sorter(StrId("A"), ASC), Sorter(StrId("B"), DESC)>>

(***************************************************************************)
(* Properties of the local sort gesture (checked under SpecLocal).         *)
(***************************************************************************)
\* the handler of the latest event was the gesture handler and it got past
\* line 78, that is, the gesture came with a payload
GestureHandled ==
    event.name = "onSort" /\ ~(thrown = "TypeError" /\ calls = <<>>)

\* the places, in the pairs of the latest gesture, of the pairs with a column
BoundPairs == {k \in 1..Len(sortedBy.list) : sortedBy.list[k].sortCol.defined}

\* those whose column is one of the column definitions given at attach
KnownPairs ==
    {k \in BoundPairs :
        \E c \in 1..Len(columnDefinitions) : columnDefinitions[c] = sortedBy.list[k].sortCol}

\* the n-th place of a set of places, in gesture order
NthOf(places, n) ==
    CHOOSE k \in places : Cardinality({j \in places : j < k}) = n - 1

\* the sorter a pair projects to
Projected(pair) == Sorter(pair.sortCol.id, IF pair.sortAsc THEN ASC ELSE DESC)

C12_UnboundGestureStillRenders ==
    GestureHandled /\ sortedBy.isArray /\ BoundPairs = {} =>
        /\ thrown = ""
        /\ _currentLocalSorters = <<>>
        /\ Times("grid.invalidate") = 1
        /\ Times("grid.render") = 1

\* a gesture of two pairs without a column on a data view of two rows, whose
\* comparator is therefore called
C12_Witness ==
    /\ GestureHandled /\ sortedBy.isArray
    /\ Len(sortedBy.list) = 2 /\ BoundPairs = {}
    /\ ComparatorCalled(rowCount)
    /\ Times("grid.render") = 1

\* C13 as stated: no local gesture raises: whatever the gesture, malformed
\* ones included (no payload, or the multi-column flag without a sequence
\* of pairs), and however many rows the data view holds, the handler and
\* the comparator complete without throwing, and a gesture without a
\* sequence of pairs leaves the current local sorters empty.
C13_NoLocalGestureRaises ==
    event.name = "onSort" =>
        /\ thrown = ""
        /\ ~sortedBy.isArray => _currentLocalSorters = <<>>

(***************************************************************************)
(* Properties of dispose (checked under SpecDispose).                      *)
(***************************************************************************)
\* C14 as stated: after dispose() every subscription made by an attach call
\* is released: a later grid sort gesture, local or backend, and a later
\* row-count change run no handler of the service: no handler invocation
\* is added, no event is handled, and the current local sorters, the data
\* view's sort and the grid's sort columns stay as they were.
C14_DisposeReleasesEverySubscription ==
    [][disposed >= 1 /\ disposed' = disposed =>
          /\ Len(invocations') = Len(invocations)
          /\ event' = event
          /\ UNCHANGED <<_currentLocalSorters, serviceSorters, sortedBy,
                         gridSortColumns>>]_vars

\* C15: dispose() never raises, whether nothing is attached, either mode is
\* attached, or it was called before; and a dispose() that follows a
\* dispose() leaves the service and its subscriptions as the first left them.
C15_DisposeNeverRaisesAndIsIdempotent ==
    /\ [](event.name = "dispose" => thrown = "")
    /\ [][event.name = "dispose" /\ disposed' = disposed + 1 =>
              UNCHANGED <<_gridOptions, _currentLocalSorters, _slickSubscriber,
                          _eventHandler, thrown, calls>>]_vars

\* dispose() called twice in a row on an attached service
C15_Witness ==
    /\ disposed >= 2
    /\ event.name = "dispose"
    /\ _slickSubscriber # <<>>
    /\ thrown = ""

(***************************************************************************)
(* Properties of the comparator (checked under SpecComparator).            *)
(***************************************************************************)
\* the comparator was called on two rows and returned
Compared == comparison.made /\ ~comparison.threw

\* the first pair, of the sortColumns the comparator works on, with a column
FirstBound == sortedBy.list[NthOf(BoundPairs, 1)]

\* C16: the comparator decides by the first pair of its list that has a
\* column and returns at once: its result is the result it gives for that
\* pair alone, so later pairs never count, not even when the two rows tie
\* on the first; it returns 0 when no pair has a column.
C16_FirstBoundPairDecides ==
    Compared =>
        comparison.result =
            (IF BoundPairs = {} THEN 0
             ELSE comparator(<<FirstBound>>, comparison.dataRow1, comparison.dataRow2))

\* two pairs with a column, rows that tie on the field of the first and
\* differ on the field of the second: the comparator returns 0
C16_Witness ==
    /\ Compared
    /\ BoundPairs = {1, 2}
    /\ comparison.dataRow1[SortField(sortedBy.list[1].sortCol)]
           = comparison.dataRow2[SortField(sortedBy.list[1].sortCol)]
    /\ comparison.dataRow1[SortField(sortedBy.list[2].sortCol)]
           # comparison.dataRow2[SortField(sortedBy.list[2].sortCol)]
    /\ comparison.result = 0

\* the comparison of the two rows on field f, in the direction of FirstBound
ComparedOn(f) ==
    sortByFieldType(comparison.dataRow1[f], comparison.dataRow2[f],
                    SortFieldType(FirstBound.sortCol),
                    IF FirstBound.sortAsc THEN 1 ELSE -1)

\* C18: the comparator reads both rows' values from the column's query-field
\* override when it declares one, whatever its other properties; from its
\* filter-level override only when it declares no query-field override;
\* and from its base field only when it declares neither.
C18_FieldFallbackChain ==
    Compared /\ BoundPairs # {} =>
        LET sortCol == FirstBound.sortCol
        IN  /\ ColumnQueryField(sortCol) # "" =>
                   comparison.result = ComparedOn(ColumnQueryField(sortCol))
            /\ ColumnQueryField(sortCol) = "" /\ ColumnQueryFieldFilter(sortCol) # "" =>
                   comparison.result = ComparedOn(ColumnQueryFieldFilter(sortCol))
            /\ ColumnQueryField(sortCol) = "" /\ ColumnQueryFieldFilter(sortCol) = "" =>
                   comparison.result = ComparedOn(ColumnField(sortCol))

\* a column with both overrides, rows that differ on the query field only:
\* the comparator tells them apart
C18_Witness ==
    /\ Compared /\ BoundPairs # {}
    /\ ColumnQueryField(FirstBound.sortCol) # ""
    /\ ColumnQueryFieldFilter(FirstBound.sortCol) # ""
    /\ comparison.dataRow1["q"] # comparison.dataRow2["q"]
    /\ comparison.dataRow1["f"] = comparison.dataRow2["f"]
    /\ comparison.dataRow1["a"] = comparison.dataRow2["a"]
    /\ comparison.result # 0

(***************************************************************************)
(* Properties of the preset load (checked under SpecPresets).              *)
(***************************************************************************)
\* C17: loadLocalPresets, when no preset names a column definition (or none
\* is configured), does nothing more: the data view is not sorted, the
\* grid is not invalidated, rendered or given sort columns, and nothing is
\* emitted; when at least one preset matches, the data view is sorted, the
\* grid is invalidated and rendered, and grid.setSortColumns receives the
\* reconciled list, one entry per matched column in column order.
C17_PresetLoadActsOnlyOnMatch ==
    Times("loadLocalPresets") > 0 =>
        IF MatchedColumns = {}
        THEN /\ calls = <<Call(0, "loadLocalPresets", <<>>, "")>>
             /\ sortedBy = NoArray
             /\ gridSortColumns = <<>>
        ELSE /\ Times("dataView.sort") = 1
             /\ Times("grid.invalidate") = 1
             /\ Times("grid.render") = 1
             /\ Times("grid.setSortColumns") = 1
             /\ Len(gridSortColumns) = Cardinality(MatchedColumns)
             /\ \A n \in 1..Len(gridSortColumns) :
                    gridSortColumns[n].columnId = columnDefinitions[NthMatched(n)].id

\* presets are configured and there are column definitions, but the preset
\* names "7" where the column's id is the number 7: nothing matches
C17_Witness ==
    /\ Times("loadLocalPresets") > 0
    /\ \E p \in 1..Len(ConfiguredPresets) : ConfiguredPresets[p].columnId = StrId("7")
    /\ \E k \in 1..Len(columnDefinitions) : columnDefinitions[k].id = NumId("7")
    /\ MatchedColumns = {}
    /\ Len(calls) = 1

(***************************************************************************)
(* Properties of gestures and row-count events together (SpecLocal).       *)
(***************************************************************************)
\* the calls of a gesture handler that ran to its end, in order
GestureCalls ==
    <<Call(0, "dataView.sort", <<>>, ""),
      Call(0, "grid.invalidate", <<>>, ""),
      Call(0, "grid.render", <<>>, ""),
      Call(0, "onSortChanged.next", _currentLocalSorters, "")>>

\* C19 as stated: every local sort gesture performs, in this order, the
\* reset and repopulation of the current local sorters, dataView.sort,
\* grid.invalidate(), grid.render(), and then exactly one 'local' emission
\* whose value is the current local sorters at that moment.
C19_GestureStepsInOrder ==
    event.name = "onSort" => calls = GestureCalls

\* C20 as stated: after any sequence of gestures and row-count events the
\* current local sorters describe the sort most recently applied to the
\* data view: the same columns, in the same order, with the same
\* directions; they are empty while no sort was applied.
C20_SortersDescribeAppliedSort ==
    /\ Len(_currentLocalSorters) = Cardinality(BoundPairs)
    /\ \A n \in 1..Len(_currentLocalSorters) :
           LET pair == sortedBy.list[NthOf(BoundPairs, n)]
           IN  /\ _currentLocalSorters[n].columnId[2] = pair.sortCol.id[2]
               /\ _currentLocalSorters[n].direction = (IF pair.sortAsc THEN ASC ELSE DESC)

====
